---- MODULE Spec2Model ----
(***************************************************************************)
(* The Myanmar text reshaper IrActionsReport._myanmar_text_reshaper of     *)
(* report_myanmar_text_v13 and report_myanmar_text_v16, as a state machine *)
(* that runs the eight passes over html_list one loop iteration at a time  *)
(* and then joins the cells.                                               *)
(*                                                                         *)
(* A character is the string of its four hex digits ("1031" is U+1031).    *)
(* A cell of html_list is a Python string: a sequence of characters, of    *)
(* length 0 (''), 1 (one character) or 2 ('\u001D\u1031').                 *)
(* Indices are Python's: 0-based, and html_list[k] with -len <= k < 0 is   *)
(* html_list[len + k]; any other k outside [0, len) raises IndexError.     *)
(***************************************************************************)
EXTENDS Integers, Sequences, FiniteSets, TLC

VARIABLES variant, html, html_list, pc, i, wrapped, matched, reshape_html,
          call, first_html, prev_result, hist, dead, reused

vars == <<variant, html, html_list, pc, i, wrapped, matched, reshape_html,
          call, first_html, prev_result, hist, dead, reused>>

(***************************************************************************)
(* Bounds of the model.                                                    *)
(***************************************************************************)
\* Longest input drawn from the whole Alphabet.
MaxLen == 3

\* Longest Myanmar core put between two frames of three ASCII characters.
MaxCore == 3

\* Number of times the caller applies the reshaper in SpecTwice.
MaxCalls == 2

\* Longest core of medial signs and vowel signs E in SpecRuns.
MaxRun == 5

\* Most characters before the dot below in SpecDot.
MaxContext == 3

\* Longest core of vowel signs and medials in SpecLigatures.
MaxLigatures == 3

\* Most characters after the Kinzi pattern in SpecKinzi.
MaxTail == 3

\* Longest core of viramas, consonants and vowel signs U in SpecStack.
MaxStack == 4

\* Longest core of Kinzi markers, medials and vowel signs in SpecMarker.
MaxMarker == 3

\* Longest core of consonants, medials Ra and Wa and upper vowel signs in
\* SpecRaVowel.
MaxVowel == 4

\* Longest core between the two runs of markup characters in SpecEnvelope.
MaxEnvelope == 3

(***************************************************************************)
(* Python list indexing.                                                   *)
(***************************************************************************)
\* html_list[k] exists
InRange(b, k) == -Len(b) <= k /\ k < Len(b)

\* the 1-based position of html_list[k]
Norm(b, k) == IF k < 0 THEN Len(b) + k + 1 ELSE k + 1

\* the value of html_list[k] ('' where the access would raise)
Get(m, k) == IF InRange(m.buf, k) THEN m.buf[Norm(m.buf, k)] ELSE <<>>

(***************************************************************************)
(* The running function: m.buf is html_list, m.raised says an IndexError   *)
(* is propagating, m.wrapped that some access used a negative index,       *)
(* m.matched that some rule body has assigned to a cell, m.dead is the set  *)
(* of positions that were assigned '' in the current pass, and m.reused    *)
(* says that such a cell was read by a later guard or right-hand side, or  *)
(* assigned again, in the same pass.                                       *)
(* A guard evaluates to [v, w, r]: v is "T", "F" or "E" (it raised), w     *)
(* says one of the reads it made used a negative index, r is the set of    *)
(* positions it read.                                                      *)
(***************************************************************************)
\* html_list[k] in S
In(m, k, S) ==
  IF ~InRange(m.buf, k) THEN [v |-> "E", w |-> FALSE, r |-> {}]
  ELSE [v |-> IF \E c \in S : m.buf[Norm(m.buf, k)] = <<c>> THEN "T" ELSE "F",
        w |-> k < 0,
        r |-> {Norm(m.buf, k)}]

\* html_list[k] == c
Eq(m, k, c) == In(m, k, {c})

\* a or b (b is not evaluated when a is true or raises)
Or(a, b) ==
  IF a.v = "F" THEN [v |-> b.v, w |-> a.w \/ b.w, r |-> a.r \cup b.r] ELSE a

\* a and b (b is not evaluated when a is false or raises)
And(a, b) ==
  IF a.v = "T" THEN [v |-> b.v, w |-> a.w \/ b.w, r |-> a.r \cup b.r] ELSE a

\* if c: t   else: e      (t and e are computed from m)
IfElse(m, c, t, e) ==
  LET again == c.r \cap m.dead # {} IN
  IF m.raised THEN m
  ELSE IF c.v = "E"
    THEN [m EXCEPT !.raised = TRUE, !.wrapped = @ \/ c.w, !.reused = @ \/ again]
  ELSE IF c.v = "T" THEN [t EXCEPT !.wrapped = @ \/ c.w, !.reused = @ \/ again]
  ELSE [e EXCEPT !.wrapped = @ \/ c.w, !.reused = @ \/ again]

\* if c: t
When(m, c, t) == IfElse(m, c, t, m)

\* an assignment that removes the cell when x is '' (del html_list[k]) instead
\* of leaving an empty cell behind
SetOrDelete(m, k, x) ==
  IF m.raised THEN m
  ELSE IF ~InRange(m.buf, k) THEN [m EXCEPT !.raised = TRUE]
  ELSE IF x = <<>>
    THEN [m EXCEPT !.buf = SubSeq(@, 1, Norm(@, k) - 1)
                             \o SubSeq(@, Norm(@, k) + 1, Len(@)),
                   !.matched = TRUE]
  ELSE [m EXCEPT !.buf[Norm(m.buf, k)] = x, !.matched = TRUE]

\* html_list[k] = x
Set(m, k, x) ==
  IF m.raised THEN m
  ELSE IF ~InRange(m.buf, k) THEN [m EXCEPT !.raised = TRUE]
  ELSE [m EXCEPT !.buf[Norm(m.buf, k)] = x,
                 !.wrapped = @ \/ k < 0,
                 !.matched = TRUE,
                 !.reused = @ \/ Norm(m.buf, k) \in m.dead,
                 !.dead = IF x = <<>> THEN @ \cup {Norm(m.buf, k)}
                          ELSE @ \ {Norm(m.buf, k)}]

\* the reads on the right of an assignment: they raise before any write
Reads(m, ks) ==
  IF m.raised THEN m
  ELSE IF \E k \in ks : ~InRange(m.buf, k) THEN [m EXCEPT !.raised = TRUE]
  ELSE [m EXCEPT !.wrapped = @ \/ \E k \in ks : k < 0,
                 !.reused = @ \/ \E k \in ks : Norm(m.buf, k) \in m.dead]

\* html_list[k1], html_list[k2] = x1, x2  (written left to right)
Set2(m, k1, x1, k2, x2) == Set(Set(m, k1, x1), k2, x2)

\* html_list[k1], html_list[k2], html_list[k3] = x1, x2, x3
Set3(m, k1, x1, k2, x2, k3, x3) == Set(Set(Set(m, k1, x1), k2, x2), k3, x3)

\* a swap written as two assignments: html_list[j] = html_list[k] and then
\* html_list[k] = html_list[j], which loses the old html_list[j]
SwapTwoAssignments(m, j, k) ==
  LET r == Reads(m, {j, k}) IN Set2(r, j, Get(m, k), k, Get(m, k))

\* html_list[j], html_list[k] = html_list[k], html_list[j]
Swap(m, j, k) ==
  LET r == Reads(m, {j, k}) IN Set2(r, j, Get(m, k), k, Get(m, j))

(***************************************************************************)
(* Character classes of the rules.                                         *)
(***************************************************************************)
\* the fragment '\u001D\u1031'
MarkerE == <<"001D", "1031">>

Medials == {"103B", "103C", "103D", "103E"}

\* a trigger list to which report_myanmar_text_v13 adds the vowel sign U
Pass1BeforeU(var) == IF var = "v13" THEN Medials \cup {"102F"} ELSE Medials

\* pass 1's trigger list: report_myanmar_text_v13 adds the letter Ra
Pass1Before(var) == IF var = "v13" THEN Medials \cup {"101B"} ELSE Medials

WideBase == {"1000", "1003", "100F", "1006", "1010", "1011",
             "1018", "101A", "101C", "101E", "101F", "1021"}

UpperVowels == {"102D", "102E", "1032"}

\* the characters of the Myanmar block U+1000..U+109F that the rules name
MyanmarBlock ==
  {"1000", "1001", "1002", "1003", "1004", "1005", "1006", "1007", "1008", "1009",
   "100A", "100B", "100C", "100D", "100E", "100F", "1010", "1011", "1012", "1013",
   "1014", "1015", "1016", "1017", "1018", "1019", "101A", "101B", "101C", "101D",
   "101E", "101F", "1020", "1021", "102B", "102D", "102E", "102F", "1030", "1031",
   "1032", "1036", "1037", "1039", "103A", "103B", "103C", "103D", "103E"}

(***************************************************************************)
(* Pass 1: reorder the 'ThaWaiHtoo' character (vowel sign E).              *)
(***************************************************************************)
\* pass 1 without its third swap: E moves across two characters at most
Pass1AtTwoSwaps(var, m, k) ==
  LET v == Get(m, k)
      s1 == Swap(m, k - 1, k)
      s2 == Swap(s1, k - 2, k - 1)
  IN IF v = <<"1031">>
     THEN When(m, In(m, k - 1, Pass1Before(var)),
            When(s1, In(s1, k - 2, Medials), s2))
     ELSE m

Pass1At(var, m, k) ==
  LET v == Get(m, k)
      s1 == Swap(m, k - 1, k)
      s2 == Swap(s1, k - 2, k - 1)
      s3 == Swap(s2, k - 3, k - 2)
  IN IF v = <<"1031">>
     THEN When(m, In(m, k - 1, Pass1Before(var)),
            When(s1, In(s1, k - 2, Medials),
              When(s2, In(s2, k - 3, Medials), s3)))
     ELSE m

(***************************************************************************)
(* Pass 2: reorder the 'YaYit' character (medial Ra).                      *)
(***************************************************************************)
\* pass 2 moving the medial Ra only before a character of the Myanmar block
Pass2AtMyanmarOnly(var, m, k) ==
  LET v == Get(m, k)
      r == Reads(m, {k, k - 2})
      rot == Set3(r, k - 2, MarkerE, k - 1, Get(m, k), k, Get(m, k - 2))
  IN IF v = <<"103C">>
     THEN IfElse(m, Eq(m, k - 1, "1031"), rot,
                 When(m, In(m, k - 1, MyanmarBlock), Swap(m, k - 1, k)))
     ELSE m

Pass2At(var, m, k) ==
  LET v == Get(m, k)
      r == Reads(m, {k, k - 2})
      rot == Set3(r, k - 2, MarkerE, k - 1, Get(m, k), k, Get(m, k - 2))
  IN IF v = <<"103C">>
     THEN IfElse(m, Eq(m, k - 1, "1031"), rot, Swap(m, k - 1, k))
     ELSE m

(***************************************************************************)
(* Pass 3: 'YaYit' character substitutions.                                *)
(***************************************************************************)
Pass3At(var, m, k) ==
  LET v == Get(m, k)
  IN IF v = <<"103C">>
     THEN When(m, In(m, k + 1, WideBase), Set(m, k, <<"E1B2">>))
     ELSE m

(***************************************************************************)
(* Pass 4: one-to-one character substitutions.                             *)
(***************************************************************************)
VowelsU == {"102F", "1030"}

RaForms == {"103C", "E1B2"}

\* the rule of Na without its last 'if', the split that moves E before Na
Pass4NaNoSplit(m, k) ==
  LET a == When(m, In(m, k + 1, VowelsU \cup {"103D", "103E"}), Set(m, k, <<"E107">>))
  IN When(a, In(a, k + 2, VowelsU), Set(a, k, <<"E107">>))

\* v == '\u1014'
Pass4Na(m, k) ==
  LET a == When(m, In(m, k + 1, VowelsU \cup {"103D", "103E"}), Set(m, k, <<"E107">>))
      b == When(a, In(a, k + 2, VowelsU), Set(a, k, <<"E107">>))
      r == Reads(b, {k + 2})
      split == Set3(r, k, MarkerE, k + 1, <<"E107">>, k + 2, Get(b, k + 2))
  IN When(b, Eq(b, k + 1, "1031"),
       When(b, In(b, k + 2, VowelsU \cup {"103D", "103E"}), split))

\* the rule with a fourth look-ahead, one cell further than the source reads
Pass4RaFourAhead(m, k) ==
  LET a == When(m, In(m, k + 1, VowelsU), Set(m, k, <<"E108">>))
      b == When(a, In(a, k + 2, VowelsU), Set(a, k, <<"E108">>))
      c == When(b, In(b, k + 3, VowelsU), Set(b, k, <<"E108">>))
  IN When(c, In(c, k + 4, VowelsU), Set(c, k, <<"E108">>))

\* v == '\u101B'
Pass4Ra(m, k) ==
  LET a == When(m, In(m, k + 1, VowelsU), Set(m, k, <<"E108">>))
      b == When(a, In(a, k + 2, VowelsU), Set(a, k, <<"E108">>))
  IN When(b, In(b, k + 3, VowelsU), Set(b, k, <<"E108">>))

\* v == '\u102F' (form "E2F1") and v == '\u1030' (form "E2F2")
Pass4U(m, k, form) ==
  LET a == When(m, Or(Eq(m, k - 1, "103B"), Eq(m, k - 2, "103B")), Set(m, k, <<form>>))
  IN When(a, Or(In(a, k - 2, RaForms), In(a, k - 3, RaForms)), Set(a, k, <<form>>))

\* the rules of report_myanmar_text_v16 for '\u1037' in another order: the two
\* that give '\uE037' after the four that give '\uE137'
Pass4Dot16PlainLast(m, k) ==
  LET c == When(m, Or(Eq(m, k - 1, "101B"), Or(Eq(m, k - 2, "101B"), Eq(m, k - 3, "101B"))),
                Set(m, k, <<"E137">>))
      d == When(c, In(c, k - 1, {"E2F1", "E2F2"}), Set(c, k, <<"E137">>))
      e == When(d, Or(Eq(d, k - 1, "103D"), Eq(d, k - 2, "103D")), Set(d, k, <<"E137">>))
      f == When(e, Or(Eq(e, k - 1, "103B"), Eq(e, k - 2, "103B")), Set(e, k, <<"E137">>))
      a == When(f, In(f, k - 1, VowelsU), Set(f, k, <<"E037">>))
  IN When(a, Or(Eq(a, k - 1, "1014"), Eq(a, k - 2, "1014")), Set(a, k, <<"E037">>))

\* v == '\u1037' in report_myanmar_text_v16
Pass4Dot16(m, k) ==
  LET a == When(m, In(m, k - 1, VowelsU), Set(m, k, <<"E037">>))
      b == When(a, Or(Eq(a, k - 1, "1014"), Eq(a, k - 2, "1014")), Set(a, k, <<"E037">>))
      c == When(b, Or(Eq(b, k - 1, "101B"), Or(Eq(b, k - 2, "101B"), Eq(b, k - 3, "101B"))),
                Set(b, k, <<"E137">>))
      d == When(c, In(c, k - 1, {"E2F1", "E2F2"}), Set(c, k, <<"E137">>))
      e == When(d, Or(Eq(d, k - 1, "103D"), Eq(d, k - 2, "103D")), Set(d, k, <<"E137">>))
  IN When(e, Or(Eq(e, k - 1, "103B"), Eq(e, k - 2, "103B")), Set(e, k, <<"E137">>))

\* v == '\u1037' in report_myanmar_text_v13
Pass4Dot13(m, k) ==
  LET a == When(m, In(m, k - 1, VowelsU), Set(m, k, <<"E037">>))
      b == When(a, Or(Eq(a, k - 1, "1014"), Eq(a, k - 2, "1014")), Set(a, k, <<"E037">>))
      c == When(b, In(b, k - 1, {"E2F1", "E2F2", "103D"}), Set(b, k, <<"E137">>))
      d == When(c, Or(Eq(c, k - 1, "103B"), Eq(c, k - 2, "103B")), Set(c, k, <<"E137">>))
  IN When(d, Or(Eq(d, k - 1, "103E"), Eq(d, k - 2, "103E")),
       IfElse(d, Eq(d, k - 3, "101B"), Set(d, k, <<"E137">>), Set(d, k, <<"E037">>)))

\* v == '\u103E'
Pass4Ha(m, k) == When(m, In(m, k - 2, RaForms), Set(m, k, <<"E1F3">>))

Pass4At(var, m, k) ==
  LET v == Get(m, k)
  IN CASE v = <<"1014">> -> Pass4Na(m, k)
       [] v = <<"101B">> -> Pass4Ra(m, k)
       [] v = <<"102F">> -> Pass4U(m, k, "E2F1")
       [] v = <<"1030">> -> Pass4U(m, k, "E2F2")
       [] v = <<"1037">> -> IF var = "v13" THEN Pass4Dot13(m, k) ELSE Pass4Dot16(m, k)
       [] v = <<"103E">> -> Pass4Ha(m, k)
       [] OTHER -> m

(***************************************************************************)
(* Pass 5: two-to-one character substitutions.                             *)
(***************************************************************************)
\* a fusion that writes the glyph and leaves the second cell as it was
FuseKeepSecond(m, k, j, c, form) == When(m, Eq(m, j, c), Set(m, k, <<form>>))

\* if html_list[j] == c: html_list[k], html_list[j] = form, ''
Fuse(m, k, j, c, form) == When(m, Eq(m, j, c), Set2(m, k, <<form>>, j, <<>>))

\* v == '\u102D'
Pass5I(m, k) ==
  LET a == Fuse(m, k, k + 1, "1036", "E2D1")
  IN Fuse(a, k, k + 1, "1032", "E12D")

\* v == '\u102B'
Pass5Aa(m, k) ==
  LET a == Fuse(m, k, k + 1, "103A", "E02D")
      b == Fuse(a, k, k + 1, "1032", "E52C")
  IN Fuse(b, k, k + 1, "1036", "E52B")

\* the rule of '\u103B' without its nested guard: a medial Ha after the pair
\* medial Ya, medial Wa is left alone
Pass5YaPairsOnly(m, k) ==
  LET a == Fuse(m, k, k + 1, "103D", "E1A4")
  IN Fuse(a, k, k + 1, "103E", "E1A3")

\* v == '\u103B'
Pass5Ya(m, k) ==
  LET s == Set2(m, k, <<"E1A4">>, k + 1, <<>>)
      a == When(m, Eq(m, k + 1, "103D"),
             When(s, Eq(s, k + 2, "103E"),
               Set3(s, k, <<"E1D1">>, k + 1, <<"103B">>, k + 2, <<>>)))
  IN Fuse(a, k, k + 1, "103E", "E1A3")

\* v == '\u103D'
Pass5Wa(m, k) == Fuse(m, k, k + 1, "103E", "E1D1")

\* v == '\u102F' (form "E1F2") and v == '\u1030' (form "E430")
Pass5U(m, k, form) ==
  LET a == When(m, Eq(m, k - 1, "103E"), Set2(m, k - 1, <<form>>, k, <<>>))
  IN When(a, Eq(a, k - 2, "103E"), Set2(a, k - 2, <<form>>, k, <<>>))

Pass5At(var, m, k) ==
  LET v == Get(m, k)
  IN CASE v = <<"102D">> -> Pass5I(m, k)
       [] v = <<"102B">> -> Pass5Aa(m, k)
       [] v = <<"103B">> -> Pass5Ya(m, k)
       [] v = <<"103D">> -> Pass5Wa(m, k)
       [] v = <<"102F">> -> Pass5U(m, k, "E1F2")
       [] v = <<"1030">> -> Pass5U(m, k, "E430")
       [] OTHER -> m

(***************************************************************************)
(* Pass 6: virama character substitutions.                                 *)
(***************************************************************************)
\* the stacked forms written before the rule of '\u100D'
StackedA ==
  << <<"1000", "E000">>, <<"1001", "E001">>, <<"1002", "E002">>, <<"1003", "E003">>,
     <<"1005", "E005">>, <<"1006", "E006">>, <<"1007", "E007">>, <<"1008", "E008">>,
     <<"100A", "E00A">>, <<"100B", "E00B">>, <<"100C", "E00C">> >>

\* the stacked forms between the rules of '\u100D' and of '\u1019'
StackedB ==
  << <<"100E", "E00E">>, <<"100F", "E00F">>,
     <<"1010", "E010">>, <<"1011", "E011">>, <<"1012", "E012">>, <<"1013", "E013">>,
     <<"1014", "E014">>, <<"1015", "E015">>, <<"1016", "E016">>, <<"1017", "E017">>,
     <<"1018", "E018">> >>

\* the stacked forms after the rule of '\u1019'
StackedC ==
  << <<"101C", "E01C">>, <<"101E", "E01E">>, <<"101F", "E553">>, <<"1021", "E021">> >>

\* the rules rules[n..], one 'if' after the other
RECURSIVE FuseAll(_, _, _, _)
FuseAll(m, k, rules, n) ==
  IF n > Len(rules) THEN m
  ELSE FuseAll(Fuse(m, k, k + 1, rules[n][1], rules[n][2]), k, rules, n + 1)

\* the rule of '\u100D'
StackDda(m, k) ==
  IfElse(m, And(Eq(m, k - 1, "100F"), Eq(m, k + 1, "100D")),
         Set3(m, k - 1, <<"E105">>, k, <<>>, k + 1, <<>>),
         Fuse(m, k, k + 1, "100D", "E00D"))

\* the rule of '\u1019': report_myanmar_text_v13 moves a following E before it
StackMa(var, m, k) ==
  IF var = "v13"
  THEN When(m, Eq(m, k + 1, "1019"),
         IfElse(m, Eq(m, k + 2, "1031"),
                Set3(m, k, <<"1031">>, k + 1, <<"E019">>, k + 2, <<>>),
                Set2(m, k, <<"E019">>, k + 1, <<>>)))
  ELSE Fuse(m, k, k + 1, "1019", "E019")

\* a Kinzi branch that leaves the marker in the cell of the virama
KinziInPlace(m, k) ==
  LET a == Set3(m, k - 2, <<>>, k - 1, <<>>, k, <<"E390">>)
  IN IfElse(a, Eq(a, k + 1, "103C"), Set(a, k + 1, <<"E1B6">>),
       When(a, Eq(a, k + 1, "E1B2"), Set(a, k + 1, <<"E1B7">>)))

\* the Kinzi branch
Kinzi(m, k) ==
  LET a == Set3(m, k - 2, <<>>, k - 1, <<>>, k, <<"E390">>)
      r == Reads(a, {k + 2, k})
      rot(form) == Set3(r, k, <<form>>, k + 1, Get(a, k + 2), k + 2, Get(a, k))
  IN IfElse(a, Eq(a, k + 1, "103C"), rot("E1B6"),
       IfElse(a, Eq(a, k + 1, "E1B2"), rot("E1B7"), Swap(a, k, k + 1)))

\* the stacking branch
Stack(var, m, k) ==
  LET a == FuseAll(m, k, StackedA, 1)
      b == StackDda(a, k)
      c == FuseAll(b, k, StackedB, 1)
      d == StackMa(var, c, k)
      e == FuseAll(d, k, StackedC, 1)
      f == When(e, Eq(e, k + 2, "102F"), Set(e, k + 2, <<"E2F1">>))
      g == When(f, Eq(f, k + 2, "1030"), Set(f, k + 2, <<"E2F2">>))
  IN When(g, Eq(g, k - 1, "1014"), Set(g, k - 1, <<"E107">>))

Pass6At(var, m, k) ==
  LET v == Get(m, k)
  IN IF v = <<"1039">>
     THEN IfElse(m, And(Eq(m, k - 1, "103A"), Eq(m, k - 2, "1004")),
                 Kinzi(m, k), Stack(var, m, k))
     ELSE m

(***************************************************************************)
(* Pass 7: 'KinZi' variant substitutions.                                  *)
(***************************************************************************)
KinziForms ==
  << <<"102E", "E392">>, <<"102D", "E391">>, <<"1032", "E396">>, <<"1036", "E393">> >>

\* the four rules behind html_list[i + 1] == '\u103B', from rule n on
RECURSIVE KinziSkip(_, _, _)
KinziSkip(m, k, n) ==
  IF n > Len(KinziForms) THEN m
  ELSE KinziSkip(
         When(m, Eq(m, k + 2, KinziForms[n][1]),
              Set3(Reads(m, {k + 1}), k, <<KinziForms[n][2]>>, k + 1, Get(m, k + 1),
                   k + 2, <<>>)),
         k, n + 1)

\* pass 7 looking past a medial Ra '\u103C' instead of a medial Ya '\u103B'
Pass7AtPastRa(var, m, k) ==
  LET v == Get(m, k)
  IN IF v = <<"E390">>
     THEN IfElse(m, Eq(m, k + 1, "103C"), KinziSkip(m, k, 1), FuseAll(m, k, KinziForms, 1))
     ELSE m

Pass7At(var, m, k) ==
  LET v == Get(m, k)
  IN IF v = <<"E390">>
     THEN IfElse(m, Eq(m, k + 1, "103B"), KinziSkip(m, k, 1), FuseAll(m, k, KinziForms, 1))
     ELSE m

(***************************************************************************)
(* Pass 8: 'YaYit' variant substitutions.                                  *)
(***************************************************************************)
\* the rule without its nested guard: before a medial Wa the form is wa,
\* whatever follows the medial Wa
Pass8RaWaFirst(m, k, vowel, wa) ==
  LET a == When(m, In(m, k + 2, UpperVowels), Set(m, k, <<vowel>>))
  IN When(a, Eq(a, k + 2, "103D"), Set(a, k, <<wa>>))

\* v is a medial Ra: vowel is its form before an upper vowel, wa before a medial Wa
Pass8Ra(m, k, vowel, wa) ==
  LET a == When(m, In(m, k + 2, UpperVowels), Set(m, k, <<vowel>>))
      s == Set(a, k, <<wa>>)
  IN When(a, Eq(a, k + 2, "103D"),
       When(s, In(s, k + 3, UpperVowels), Set(s, k, <<vowel>>)))

Pass8At(var, m, k) ==
  LET v == Get(m, k)
  IN CASE v = <<"103C">> -> Pass8Ra(m, k, "E1B6", "E1BB")
       [] v = <<"E1B2">> -> Pass8Ra(m, k, "E1B7", "E1BC")
       [] OTHER -> m

(***************************************************************************)
(* Serialization: ''.join(map(str, html_list)).                            *)
(***************************************************************************)
RECURSIVE Join(_)
Join(b) == IF b = <<>> THEN <<>> ELSE Head(b) \o Join(Tail(b))

\* list(html): one cell for each character
List(s) == [n \in 1..Len(s) |-> <<s[n]>>]

(***************************************************************************)
(* The inputs of the model.                                                *)
(***************************************************************************)
\* ASCII markup and text
Ascii == {"003C", "0062", "003E", "002F", "0048", "0065", "006C", "006F"}

\* the private-use characters a pass is triggered by
PrivateTriggers == {"E390", "E1B2"}

\* the characters of the Myanmar block the short inputs are made of
MyanmarShort == {"1000", "1004", "1014", "102D", "102F", "1031", "1036",
                 "1039", "103A", "103C"}

Alphabet == {"0062"} \cup PrivateTriggers \cup MyanmarShort

\* the characters the rules are triggered by
Triggers == {"1031", "103C", "1014", "101B", "102F", "1030", "1037", "103E",
             "102D", "102B", "103B", "103D", "1039", "E390", "E1B2"}

\* the sequences over S of length at most n
SeqsUpTo(S, n) == UNION {[1..l -> S] : l \in 0..n}

\* "<b>Hello</b>"
Scenario5 == <<"003C", "0062", "003E", "0048", "0065", "006C", "006C", "006F",
               "003C", "002F", "0062", "003E">>

Scenarios == { <<"1014", "1031", "102F">>,
               <<"1004", "103A", "1039", "1000">>,
               <<"103C", "1000">>,
               <<"102D", "1036">>,
               Scenario5 }

\* "<b>" and "</b"
FrameL == <<"003C", "0062", "003E">>

FrameR == <<"003C", "002F", "0062">>

\* the characters of the framed cores
CoreAlphabet == {"0062", "1000", "1015", "1031", "103C", "1004", "103A", "1039", "102D"}

Framed == {FrameL \o c \o FrameR : c \in SeqsUpTo(CoreAlphabet, MaxCore)}

Inputs == SeqsUpTo(Alphabet, MaxLen) \cup Scenarios \cup Framed

(***************************************************************************)
(* The state machine.                                                      *)
(***************************************************************************)
Variants == {"v13", "v16"}

\* html_list = list(html)
Start(x) ==
  /\ html = x
  /\ html_list = List(x)
  /\ pc = "pass1"
  /\ i = 0
  /\ wrapped = FALSE
  /\ matched = FALSE
  /\ reshape_html = <<>>
  /\ hist = <<List(x)>>
  /\ dead = {}
  /\ reused = FALSE

Init ==
  /\ variant \in Variants
  /\ \E x \in Inputs : Start(x) /\ first_html = x
  /\ call = 1
  /\ prev_result = <<>>

\* the function's state before an iteration
Running ==
  [buf |-> html_list, raised |-> FALSE, wrapped |-> wrapped, matched |-> matched,
   dead |-> dead, reused |-> reused]

\* one iteration of 'for i, v in enumerate(html_list)', m being what its body
\* makes of Running at index i, or the end of the loop and the start of pass q.
\* hist is the list of the values html_list had in the pass that is running
\* or has just ended: hist[1] at the start of the loop, hist[j + 2] after the
\* iteration at index j.
Iterate(m, q) ==
  IF i < Len(html_list)
  THEN /\ html_list' = m.buf
       /\ wrapped' = m.wrapped
       /\ matched' = m.matched
       /\ dead' = m.dead
       /\ reused' = m.reused
       /\ hist' = IF i = 0 THEN <<html_list, m.buf>> ELSE Append(hist, m.buf)
       /\ pc' = IF m.raised THEN "raised" ELSE pc
       /\ i' = i + 1
  ELSE /\ pc' = q
       /\ i' = 0
       /\ dead' = {}
       /\ UNCHANGED <<html_list, wrapped, matched, hist, reused>>

Pass1Step ==
  /\ pc = "pass1"
  /\ Iterate(Pass1At(variant, Running, i), "pass2")
  /\ UNCHANGED <<variant, html, reshape_html, call, first_html, prev_result>>

Pass2Step ==
  /\ pc = "pass2"
  /\ Iterate(Pass2At(variant, Running, i), "pass3")
  /\ UNCHANGED <<variant, html, reshape_html, call, first_html, prev_result>>

Pass3Step ==
  /\ pc = "pass3"
  /\ Iterate(Pass3At(variant, Running, i), "pass4")
  /\ UNCHANGED <<variant, html, reshape_html, call, first_html, prev_result>>

Pass4Step ==
  /\ pc = "pass4"
  /\ Iterate(Pass4At(variant, Running, i), "pass5")
  /\ UNCHANGED <<variant, html, reshape_html, call, first_html, prev_result>>

Pass5Step ==
  /\ pc = "pass5"
  /\ Iterate(Pass5At(variant, Running, i), "pass6")
  /\ UNCHANGED <<variant, html, reshape_html, call, first_html, prev_result>>

Pass6Step ==
  /\ pc = "pass6"
  /\ Iterate(Pass6At(variant, Running, i), "pass7")
  /\ UNCHANGED <<variant, html, reshape_html, call, first_html, prev_result>>

Pass7Step ==
  /\ pc = "pass7"
  /\ Iterate(Pass7At(variant, Running, i), "pass8")
  /\ UNCHANGED <<variant, html, reshape_html, call, first_html, prev_result>>

Pass8Step ==
  /\ pc = "pass8"
  /\ Iterate(Pass8At(variant, Running, i), "join")
  /\ UNCHANGED <<variant, html, reshape_html, call, first_html, prev_result>>

\* reshape_html = ''.join(map(str, html_list)); return reshape_html
Return ==
  /\ pc = "join"
  /\ reshape_html' = Join(html_list)
  /\ pc' = "done"
  /\ UNCHANGED <<variant, html, html_list, i, wrapped, matched, call, first_html,
                 prev_result, hist, dead, reused>>

Next ==
  \/ Pass1Step
  \/ Pass2Step
  \/ Pass3Step
  \/ Pass4Step
  \/ Pass5Step
  \/ Pass6Step
  \/ Pass7Step
  \/ Pass8Step
  \/ Return

Spec == Init /\ [][Next]_vars

(***************************************************************************)
(* The caller applying the reshaper to its own result.                     *)
(***************************************************************************)
\* html = self._myanmar_text_reshaper(html), once more
Reapply ==
  /\ pc = "done"
  /\ call < MaxCalls
  /\ call' = call + 1
  /\ prev_result' = reshape_html
  /\ html' = reshape_html
  /\ html_list' = List(reshape_html)
  /\ pc' = "pass1"
  /\ i' = 0
  /\ wrapped' = FALSE
  /\ matched' = FALSE
  /\ reshape_html' = <<>>
  /\ hist' = <<List(reshape_html)>>
  /\ dead' = {}
  /\ reused' = FALSE
  /\ UNCHANGED <<variant, first_html>>

InitTwice ==
  /\ variant \in Variants
  /\ \E x \in Framed : Start(x) /\ first_html = x
  /\ call = 1
  /\ prev_result = <<>>

NextTwice ==
  \/ Pass1Step
  \/ Pass2Step
  \/ Pass3Step
  \/ Pass4Step
  \/ Pass5Step
  \/ Pass6Step
  \/ Pass7Step
  \/ Pass8Step
  \/ Return
  \/ Reapply

SpecTwice == InitTwice /\ [][NextTwice]_vars

(***************************************************************************)
(* The whole function, as the composition of its loops.                    *)
(***************************************************************************)
\* the body of the loop of pass p at index k
PassAt(var, p, m, k) ==
  CASE p = 1 -> Pass1At(var, m, k)
    [] p = 2 -> Pass2At(var, m, k)
    [] p = 3 -> Pass3At(var, m, k)
    [] p = 4 -> Pass4At(var, m, k)
    [] p = 5 -> Pass5At(var, m, k)
    [] p = 6 -> Pass6At(var, m, k)
    [] p = 7 -> Pass7At(var, m, k)
    [] OTHER -> Pass8At(var, m, k)

\* 'for i, v in enumerate(html_list)' of pass p, from index k on
RECURSIVE RunLoop(_, _, _, _)
RunLoop(var, p, m, k) ==
  IF m.raised \/ k >= Len(m.buf) THEN m
  ELSE RunLoop(var, p, PassAt(var, p, m, k), k + 1)

\* the loops of the passes p..8, one after the other
RECURSIVE RunPasses(_, _, _)
RunPasses(var, p, m) ==
  IF m.raised \/ p > 8 THEN m
  ELSE RunPasses(var, p + 1, [RunLoop(var, p, m, 0) EXCEPT !.dead = {}])

\* what a call of the variant var with the string x ends in: the position
\* ("raised" or "done") and the returned string
Reshaper(var, x) ==
  LET m == RunPasses(var, 1, [buf |-> List(x), raised |-> FALSE,
                              wrapped |-> FALSE, matched |-> FALSE,
                              dead |-> {}, reused |-> FALSE])
  IN IF m.raised THEN <<"raised", <<>>>> ELSE <<"done", Join(m.buf)>>

(***************************************************************************)
(* The two variants on short inputs over the characters their rules differ *)
(* on (the letters Ra and Ma, the dot below) and their neighbours.         *)
(***************************************************************************)
VariantAlphabet == {"1000", "1019", "101B", "102F", "1031",
                    "1037", "1039", "103C", "103D", "103E"}

\* the short inputs, bare and between "<b>" and "</b"
VariantInputs ==
  SeqsUpTo(VariantAlphabet, MaxLen)
    \cup {FrameL \o c \o FrameR : c \in SeqsUpTo(VariantAlphabet, MaxLen)}

InitVariants ==
  /\ variant \in Variants
  /\ \E x \in VariantInputs : Start(x) /\ first_html = x
  /\ call = 1
  /\ prev_result = <<>>

SpecVariants == InitVariants /\ [][Next]_vars

(***************************************************************************)
(* Runs of medial signs and vowel signs E, bare and between "<b>" and "</b".*)
(***************************************************************************)
RunAlphabet == {"101B", "1031", "103B", "103E"}

RunInputs ==
  SeqsUpTo(RunAlphabet, MaxRun)
    \cup {FrameL \o c \o FrameR : c \in SeqsUpTo(RunAlphabet, MaxRun)}

InitRuns ==
  /\ variant \in Variants
  /\ \E x \in RunInputs : Start(x) /\ first_html = x
  /\ call = 1
  /\ prev_result = <<>>

SpecRuns == InitRuns /\ [][Next]_vars

(***************************************************************************)
(* A consonant with a medial Ra, with or without a vowel sign E, between   *)
(* three characters that are not of the Myanmar block on either side.      *)
(***************************************************************************)
\* the letters U+1000..U+1021
Consonants ==
  {"1000", "1001", "1002", "1003", "1004", "1005", "1006", "1007", "1008", "1009",
   "100A", "100B", "100C", "100D", "100E", "100F", "1010", "1011", "1012", "1013",
   "1014", "1015", "1016", "1017", "1018", "1019", "101A", "101B", "101C", "101D",
   "101E", "101F", "1020", "1021"}

\* "bb" followed by the Kinzi glyph, and by the wide medial Ra glyph
FrameKinzi == <<"0062", "0062", "E390">>

FrameWideRa == <<"0062", "0062", "E1B2">>

LeftFrames == {FrameL, FrameKinzi, FrameWideRa}

RightFrames == [1..3 -> {"0062", "E390", "E1B2"}] \cup {FrameR}

RaGroups ==
  {<<c, "103C">> : c \in Consonants} \cup {<<c, "103C", "1031">> : c \in Consonants}

RaInputs == {l \o g \o r : l \in LeftFrames, g \in RaGroups, r \in RightFrames}

InitRa ==
  /\ variant \in Variants
  /\ \E x \in RaInputs : Start(x) /\ first_html = x
  /\ call = 1
  /\ prev_result = <<>>

SpecRa == InitRa /\ [][Next]_vars

(***************************************************************************)
(* A dot below after a few letters, medials and vowel signs, between "<b>" *)
(* and "</b".                                                              *)
(***************************************************************************)
DotContext == {"1000", "1014", "101B", "102F", "1030", "103B", "103C", "103D", "103E"}

DotInputs ==
  {FrameL \o c \o <<"1037">> \o FrameR : c \in SeqsUpTo(DotContext, MaxContext)}

InitDot ==
  /\ variant \in Variants
  /\ \E x \in DotInputs : Start(x) /\ first_html = x
  /\ call = 1
  /\ prev_result = <<>>

SpecDot == InitDot /\ [][Next]_vars

(***************************************************************************)
(* The characters of pass 5, bare and between "<b>" and "</b".             *)
(***************************************************************************)
LigatureAlphabet == {"1000", "102B", "102D", "102F", "1030", "1032", "1036",
                     "103A", "103B", "103D", "103E"}

LigatureInputs ==
  SeqsUpTo(LigatureAlphabet, MaxLigatures)
    \cup {FrameL \o c \o FrameR : c \in SeqsUpTo(LigatureAlphabet, MaxLigatures)}

InitLigatures ==
  /\ variant \in Variants
  /\ \E x \in LigatureInputs : Start(x) /\ first_html = x
  /\ call = 1
  /\ prev_result = <<>>

SpecLigatures == InitLigatures /\ [][Next]_vars

(***************************************************************************)
(* The Kinzi pattern U+1004 U+103A U+1039 and what follows it, bare and    *)
(* between "<b>" and "</b".                                                *)
(***************************************************************************)
KinziPattern == <<"1004", "103A", "1039">>

KinziTail == {"1000", "1015", "103C", "1039", "1014", "102F", "1004", "103A"}

KinziInputs ==
  {KinziPattern \o t : t \in SeqsUpTo(KinziTail, MaxTail)}
    \cup {FrameL \o KinziPattern \o t \o FrameR : t \in SeqsUpTo(KinziTail, MaxTail)}

InitKinzi ==
  /\ variant \in Variants
  /\ \E x \in KinziInputs : Start(x) /\ first_html = x
  /\ call = 1
  /\ prev_result = <<>>

SpecKinzi == InitKinzi /\ [][Next]_vars

(***************************************************************************)
(* Viramas between consonants with and without a stacked form, Na and the  *)
(* vowel signs U and UU, between "<b>" and "</b".                          *)
(***************************************************************************)
StackAlphabet == {"1000", "1004", "1014", "1039", "102F", "1030"}

StackInputs == {FrameL \o c \o FrameR : c \in SeqsUpTo(StackAlphabet, MaxStack)}

InitStack ==
  /\ variant \in Variants
  /\ \E x \in StackInputs : Start(x) /\ first_html = x
  /\ call = 1
  /\ prev_result = <<>>

SpecStack == InitStack /\ [][Next]_vars

(***************************************************************************)
(* The Kinzi marker, in the input or made by pass 6, before medials and    *)
(* the four vowel signs of pass 7.                                         *)
(***************************************************************************)
MarkerAlphabet == {"E390", "1000", "103B", "103C", "102D", "102E", "1032", "1036"}

MarkerInputs ==
  SeqsUpTo(MarkerAlphabet, MaxMarker)
    \cup {FrameL \o c \o FrameR : c \in SeqsUpTo(MarkerAlphabet, MaxMarker)}
    \cup {FrameL \o KinziPattern \o <<"1000">> \o c \o FrameR :
            c \in SeqsUpTo(MarkerAlphabet, MaxMarker - 1)}

InitMarker ==
  /\ variant \in Variants
  /\ \E x \in MarkerInputs : Start(x) /\ first_html = x
  /\ call = 1
  /\ prev_result = <<>>

SpecMarker == InitMarker /\ [][Next]_vars

(***************************************************************************)
(* Consonants with medial Ra, medial Wa and the upper vowel signs, bare    *)
(* and between "<b>" and "</b".                                            *)
(***************************************************************************)
RaVowelAlphabet == {"1000", "1015", "103C", "103D", "102D", "102E", "1032"}

RaVowelInputs ==
  SeqsUpTo(RaVowelAlphabet, MaxVowel)
    \cup {FrameL \o c \o FrameR : c \in SeqsUpTo(RaVowelAlphabet, MaxVowel)}

InitRaVowel ==
  /\ variant \in Variants
  /\ \E x \in RaVowelInputs : Start(x) /\ first_html = x
  /\ call = 1
  /\ prev_result = <<>>

SpecRaVowel == InitRaVowel /\ [][Next]_vars

(***************************************************************************)
(* The characters whose rules read farthest from the cell they are at,     *)
(* between two runs of markup characters: three on each side, and one      *)
(* fewer on either side.                                                   *)
(***************************************************************************)
EnvelopeAlphabet == {"1031", "103B", "103C", "103D", "1039", "1004", "103A",
                     "101B", "102F", "E390", "E1B2"}

\* the last n characters of "<b>" and the first n characters of "</b"
LeftMarkup(n) == SubSeq(FrameL, 4 - n, 3)

RightMarkup(n) == SubSeq(FrameR, 1, n)

MarkupLengths == {<<3, 3>>, <<2, 3>>, <<3, 2>>}

EnvelopeInputs ==
  {LeftMarkup(n[1]) \o c \o RightMarkup(n[2]) :
     n \in MarkupLengths, c \in SeqsUpTo(EnvelopeAlphabet, MaxEnvelope)}

InitEnvelope ==
  /\ variant \in Variants
  /\ \E x \in EnvelopeInputs : Start(x) /\ first_html = x
  /\ call = 1
  /\ prev_result = <<>>

SpecEnvelope == InitEnvelope /\ [][Next]_vars

(***************************************************************************)
(* The claims.                                                             *)
(***************************************************************************)
\* the number of cells of b that hold exactly the character c
Count(b, c) == Cardinality({n \in 1..Len(b) : b[n] = <<c>>})

\* the number of places of the string s that hold the character c
Occurs(s, c) == Cardinality({n \in 1..Len(s) : s[n] = c})

NoMyanmar(s) == \A n \in 1..Len(s) : s[n] \notin MyanmarBlock

\* C1: for every input, the empty and the one-character inputs included, the
\* reshaper terminates and returns a string: it never raises.
C1_NeverRaises == pc # "raised"

\* C2: an offset outside [0, length) counts as a non-match: no pass reads or
\* writes a cell through a negative index that wraps to the tail of the buffer,
\* and no pass raises.
C2_BoundsChecked == ~wrapped /\ pc # "raised"

\* C3: for every input without a character of the Myanmar block, private-use
\* characters included, the reshaper returns normally and returns the input.
C3_NonMyanmarIdentity ==
  NoMyanmar(html) => /\ pc # "raised"
                     /\ pc = "done" => reshape_html = html

\* C4: every input in which no rule matches (no rule body runs) is returned
\* unchanged.
C4_NoMatchUnchanged ==
  (pc \in {"done", "raised"} /\ ~matched) => (pc = "done" /\ reshape_html = html)

\* the part of C4 about the inputs without any trigger character: the reshaper
\* returns them as they are, and reads no cell but html_list[i]
NoTriggerIdentity ==
  (\A n \in 1..Len(html) : html[n] \notin Triggers) =>
    /\ pc # "raised"
    /\ ~matched
    /\ ~wrapped
    /\ pc = "done" => reshape_html = html

PaRa == FrameL \o <<"1015", "103C">> \o FrameR

\* C6: the reshaper is not idempotent: for the input PaRa the first and the
\* second application both return, and the second result differs from the first.
C6_NotIdempotent ==
  first_html = PaRa =>
    /\ pc # "raised"
    /\ (call = 2 /\ pc = "done") => reshape_html # prev_result

\* C6's case: the second application to PaRa has returned a different string.
C6_Witness ==
  /\ first_html = PaRa
  /\ call = 2
  /\ pc = "done"
  /\ reshape_html # prev_result

\* C7: scenario 1, Na + E + U: the marker+E fragment in Na's cell, the special
\* Na form in E's cell, U unchanged.
C7_Scenario1 ==
  html = <<"1014", "1031", "102F">> =>
    /\ pc # "raised"
    /\ pc = "done" => /\ html_list = <<MarkerE, <<"E107">>, <<"102F">> >>
                      /\ reshape_html = <<"001D", "1031", "E107", "102F">>

C7_Witness ==
  /\ html = <<"1014", "1031", "102F">>
  /\ pc = "done"
  /\ reshape_html = <<"001D", "1031", "E107", "102F">>

\* C8: scenario 2, Nga + Asat + Virama + Ka returns Ka followed by the Kinzi
\* marker.
C8_Scenario2 ==
  html = <<"1004", "103A", "1039", "1000">> =>
    /\ pc # "raised"
    /\ pc = "done" => reshape_html = <<"1000", "E390">>

\* C9: scenario 3, medial Ra + Ka returns the wide medial Ra followed by Ka.
C9_Scenario3 ==
  html = <<"103C", "1000">> =>
    /\ pc # "raised"
    /\ pc = "done" => reshape_html = <<"E1B2", "1000">>

\* C10: scenario 4, vowel sign I + anusvara returns the one ligature glyph: the
\* first cell holds it and the second cell is empty.
C10_Scenario4 ==
  html = <<"102D", "1036">> =>
    /\ pc # "raised"
    /\ pc = "done" => /\ html_list = << <<"E2D1">>, <<>> >>
                      /\ reshape_html = <<"E2D1">>

C10_Witness ==
  /\ html = <<"102D", "1036">>
  /\ pc = "done"
  /\ html_list = << <<"E2D1">>, <<>> >>
  /\ reshape_html = <<"E2D1">>

\* the cells of b that are not empty, in index order
NonEmptyCells(b) == SelectSeq(b, LAMBDA c : c # <<>>)

\* the characters of a list of cells, one cell after the other
RECURSIVE Concatenation(_)
Concatenation(b) ==
  IF Len(b) = 0 THEN <<>>
  ELSE Concatenation(SubSeq(b, 1, Len(b) - 1)) \o b[Len(b)]

\* C11: at every point of every pass html_list has as many cells as the input
\* has characters, every cell is empty, one character or the two-character
\* fragment, and the returned string is the concatenation of the non-empty
\* cells in index order.
C11_LengthInvariant ==
  /\ Len(html_list) = Len(html)
  /\ \A n \in 1..Len(html_list) :
       html_list[n] = <<>> \/ Len(html_list[n]) = 1 \/ html_list[n] = MarkerE
  /\ \A n \in 1..Len(hist) : Len(hist[n]) = Len(html)
  /\ pc = "done" => reshape_html = Concatenation(NonEmptyCells(html_list))

\* a call that returned after a rule emptied a cell, without any wrap-around
C11_Witness ==
  /\ pc = "done"
  /\ ~wrapped
  /\ \E n \in 1..Len(html_list) : html_list[n] = <<>>
  /\ Len(reshape_html) < Len(html)

\* C12: within a pass, a cell that a rule has emptied is not read by a later
\* guard and not assigned again before the pass ends.
C12_SingleConsumption == ~reused

\* the variant that is not running
OtherVariant == IF variant = "v13" THEN "v16" ELSE "v13"

\* the characters on which the rules of the two variants differ
VariantCharacters == {"101B", "1037", "1019"}

\* C13: on an input without U+101B, U+1037 and U+1019 a call of one variant
\* ends as the call of the other variant does: both return the same string or
\* both raise.
C13_VariantsAgree ==
  (pc \in {"done", "raised"} /\ \A c \in VariantCharacters : Occurs(html, c) = 0)
    => <<pc, reshape_html>> = Reshaper(OtherVariant, html)

\* a call on such an input in which pass 1 moved a vowel sign E before a
\* medial Ha and that returned
C13_Witness ==
  /\ pc = "done"
  /\ \A c \in VariantCharacters : Occurs(html, c) = 0
  /\ \E n \in 1..Len(html) - 1 : html[n] = "103E" /\ html[n + 1] = "1031"
  /\ matched

\* the function as a composition of loops ends as the state machine does
RunsAsReshaper ==
  pc \in {"done", "raised"} => <<pc, reshape_html>> = Reshaper(variant, html)

\* the variants do differ on an input with one of the three characters
VariantsDifferSomewhere ==
  ~(pc = "done" /\ Reshaper(OtherVariant, html) # <<pc, reshape_html>>)

MedialCells == {<<c>> : c \in Medials}

\* the number of medial signs that immediately precede position p of b
RunBefore(b, p) ==
  CHOOSE k \in 0..p - 1 :
    /\ \A q \in p - k..p - 1 : b[q] \in MedialCells
    /\ k = p - 1 \/ b[p - k - 1] \notin MedialCells

Min(x, y) == IF x < y THEN x ELSE y

\* in a, E is k cells to the left of position p and the k cells it crossed
\* in b are each one cell to the right
MovedAcross(b, a, p, k) ==
  /\ a[p - k] = <<"1031">>
  /\ \A q \in p - k..p - 1 : a[q + 1] = b[q]

\* pass 1 has just ended
Pass1Ended == pc = "pass2" /\ i = 0

\* C14 as stated: a vowel sign E that pass 1 finds at an index >= 3, preceded
\* by a run of k medials, is at the end of pass 1 in the cell before the run
\* (three cells to the left when k > 3) and the medials it crossed are each
\* one cell to the right of where they were.
C14_EndsThePass ==
  (Pass1Ended /\ ~wrapped) =>
    \A p \in 4..Len(html_list) :
      (hist[p][p] = <<"1031">> /\ RunBefore(hist[p], p) >= 1)
        => MovedAcross(hist[p], html_list, p, Min(RunBefore(hist[p], p), 3))

\* C14, amended: the iteration of pass 1 at an index >= 3 that finds E
\* preceded by a run of k medials leaves E before the run (three cells to the
\* left when k > 3), the crossed medials each one cell to the right and every
\* other cell as it was; E is still in that cell at every later point of the
\* pass, and so are the medials when none of the next three cells holds E.
C14_Iteration ==
  (pc = "pass1" \/ Pass1Ended) =>
    \A p \in 4..Len(html_list) :
      (Len(hist) >= p + 1 /\ hist[p][p] = <<"1031">> /\ RunBefore(hist[p], p) >= 1)
        => LET b == hist[p]
               a == hist[p + 1]
               k == Min(RunBefore(b, p), 3)
           IN /\ MovedAcross(b, a, p, k)
              /\ \A q \in 1..Len(b) : q \notin p - k..p => a[q] = b[q]
              /\ html_list[p - k] = <<"1031">>
              /\ (\A q \in p + 1..p + 3 : q <= Len(b) => b[q] # <<"1031">>)
                    => \A q \in p - k..p : html_list[q] = a[q]

\* pass 1 has ended, without any wrap-around, on a buffer in which E followed
\* four medials or more, and E is three cells further left
C14_Witness ==
  /\ Pass1Ended
  /\ ~wrapped
  /\ \E p \in 4..Len(html_list) :
       /\ hist[1][p] = <<"1031">>
       /\ RunBefore(hist[1], p) >= 4
       /\ html_list[p - 3] = <<"1031">>

\* the form of the medial Ra before the consonant c
RaFormOf(c) == IF c \in WideBase THEN "E1B2" ELSE "103C"

\* what C15 gives for the input x = l C U+103C [U+1031] r, with l and r of
\* three characters
Relocated(x) ==
  SubSeq(x, 1, 3)
    \o (IF x[6] = "1031" THEN <<"001D", "1031">> ELSE <<>>)
    \o <<RaFormOf(x[4]), x[4]>>
    \o SubSeq(x, Len(x) - 2, Len(x))

\* C15: a call on l C U+103C U+1031 r, with l and r of three characters
\* outside the Myanmar block, returns l U+001D U+1031 R C r, and on
\* l C U+103C r it returns l R C r, where R is U+E1B2 for a wide consonant C
\* and U+103C for any other.
C15_Relocation ==
  pc \in {"done", "raised"} => pc = "done" /\ reshape_html = Relocated(html)

\* the same for the inputs whose l and r are ASCII
RelocationBetweenAscii ==
  (/\ pc \in {"done", "raised"}
   /\ \A n \in 1..Len(html) : html[n] \notin PrivateTriggers)
    => pc = "done" /\ reshape_html = Relocated(html)

\* and whenever the call returns
RelocationUnlessRaised == pc = "done" => reshape_html = Relocated(html)

\* the cell at position q of b holds one of the characters of S
Has(b, q, S) == \E c \in S : b[q] = <<c>>

\* the dot below at position p of b follows a tall cluster: a vowel sign U or
\* UU (in either form), a medial Wa or Ha, or a consonant with a medial Ra,
\* which pass 2 has put before the consonant
TallBefore(b, p) ==
  \/ Has(b, p - 1, {"102F", "1030", "E2F1", "E2F2", "103D", "103E"})
  \/ Has(b, p - 1, Consonants) /\ Has(b, p - 2, RaForms)

\* the dot below at position p of b follows a plain consonant
PlainBefore(b, p) == Has(b, p - 1, Consonants) /\ ~Has(b, p - 2, RaForms)

\* hist is the record of pass 4: the pass is running or has just ended
InPass4 == (pc = "pass4" /\ i > 0) \/ (pc = "pass5" /\ i = 0)

\* C16 as stated: the iteration of pass 4 at a dot below U+1037 rewrites it
\* to U+E137 in every tall context and to U+E037 after a plain base.
C16_TallOrPlain ==
  (InPass4 /\ ~wrapped) =>
    \A p \in 4..Len(html_list) :
      (Len(hist) >= p + 1 /\ hist[p][p] = <<"1037">>)
        => /\ TallBefore(hist[p], p) => hist[p + 1][p] = <<"E137">>
           /\ PlainBefore(hist[p], p) => hist[p + 1][p] = <<"E037">>

\* the form report_myanmar_text_v16 gives the dot below at position p of b
DotForm16(b, p) ==
  IF \/ Has(b, p - 1, {"101B"}) \/ Has(b, p - 2, {"101B"}) \/ Has(b, p - 3, {"101B"})
     \/ Has(b, p - 1, {"E2F1", "E2F2"})
     \/ Has(b, p - 1, {"103D", "103B"}) \/ Has(b, p - 2, {"103D", "103B"})
  THEN "E137"
  ELSE IF Has(b, p - 1, {"102F", "1030", "1014"}) \/ Has(b, p - 2, {"1014"})
  THEN "E037"
  ELSE "1037"

\* the form report_myanmar_text_v13 gives it
DotForm13(b, p) ==
  IF Has(b, p - 1, {"103E"}) \/ Has(b, p - 2, {"103E"})
  THEN (IF Has(b, p - 3, {"101B"}) THEN "E137" ELSE "E037")
  ELSE IF Has(b, p - 1, {"E2F1", "E2F2", "103D", "103B"}) \/ Has(b, p - 2, {"103B"})
  THEN "E137"
  ELSE IF Has(b, p - 1, {"102F", "1030", "1014"}) \/ Has(b, p - 2, {"1014"})
  THEN "E037"
  ELSE "1037"

\* C16, amended: the iteration of pass 4 at a dot below at index >= 3 gives
\* it the form that the three cells before it decide, by the priorities of
\* DotForm16 (DotForm13 in report_myanmar_text_v13): U+E137, else U+E037, else
\* it stays U+1037; no other cell changes.
C16_DotForms ==
  InPass4 =>
    \A p \in 4..Len(html_list) :
      (Len(hist) >= p + 1 /\ hist[p][p] = <<"1037">>)
        => /\ hist[p + 1][p] = <<IF variant = "v13" THEN DotForm13(hist[p], p)
                                  ELSE DotForm16(hist[p], p)>>
           /\ \A q \in 1..Len(html_list) : q # p => hist[p + 1][q] = hist[p][q]

\* pass 4 has given U+E137 to a dot below that follows a vowel sign U, which
\* it has itself rewritten to U+E2F1 just before
C16_Witness ==
  /\ InPass4
  /\ ~wrapped
  /\ \E p \in 4..Len(html_list) :
       /\ Len(hist) >= p + 1
       /\ hist[p][p] = <<"1037">>
       /\ hist[p][p - 1] = <<"E2F1">>
       /\ hist[1][p - 1] = <<"102F">>
       /\ hist[p + 1][p] = <<"E137">>

\* the pairs of pass 5: first character, second character, glyph
LigaturePairs ==
  {<<"102D", "1036", "E2D1">>, <<"102D", "1032", "E12D">>,
   <<"102B", "103A", "E02D">>, <<"102B", "1032", "E52C">>, <<"102B", "1036", "E52B">>,
   <<"103B", "103D", "E1A4">>, <<"103B", "103E", "E1A3">>,
   <<"103D", "103E", "E1D1">>}

\* the glyph of medial Ha with the vowel sign c
HaGlyph(c) == IF c = "102F" THEN "E1F2" ELSE "E430"

\* hist is the record of pass 5: the pass is running or has just ended
InPass5 == (pc = "pass5" /\ i > 0) \/ (pc = "pass6" /\ i = 0)

\* the cells at the positions of P are in a as in b
Same(a, b, P) == \A q \in P : a[q] = b[q]

\* C17: the iteration of pass 5 at a trigger that has two cells on either
\* side leaves, for a matching pair, the glyph in the first cell and '' in
\* the second; for U+103B U+103D U+103E the glyph, U+103B and ''; for
\* U+102F or U+1030 with medial Ha one or two cells before, the glyph in the
\* cell of Ha and '' in the vowel's cell; these cells are the same when the
\* pass ends and no other cell is changed by the iteration.
C17_Ligatures ==
  InPass5 =>
    \A p \in 3..Len(html_list) - 2 :
      Len(hist) >= p + 1 =>
        LET b == hist[p]
            a == hist[p + 1]
            all == 1..Len(html_list)
        IN /\ \A t \in LigaturePairs :
                (/\ b[p] = <<t[1]>>
                 /\ b[p + 1] = <<t[2]>>
                 /\ ~(t[2] = "103D" /\ b[p + 2] = <<"103E">>))
                  => /\ a[p] = <<t[3]>> /\ a[p + 1] = <<>>
                     /\ Same(a, b, all \ {p, p + 1})
                     /\ Same(html_list, a, {p, p + 1})
           /\ (b[p] = <<"103B">> /\ b[p + 1] = <<"103D">> /\ b[p + 2] = <<"103E">>)
                => /\ a[p] = <<"E1D1">> /\ a[p + 1] = <<"103B">> /\ a[p + 2] = <<>>
                   /\ Same(a, b, all \ {p, p + 1, p + 2})
                   /\ Same(html_list, a, {p, p + 1, p + 2})
           /\ \A c \in VowelsU : \A d \in {1, 2} :
                (b[p] = <<c>> /\ b[p - d] = <<"103E">>)
                  => /\ a[p - d] = <<HaGlyph(c)>> /\ a[p] = <<>>
                     /\ Same(a, b, all \ {p - 2, p - 1, p})
                     /\ Same(html_list, a, {p - d, p})

\* pass 5 has ended after it met U+103B U+103D U+103E two cells or more from
\* either end, and it leaves U+E1D1, U+103B and '' there
C17_Witness ==
  /\ pc = "pass6" /\ i = 0
  /\ ~wrapped
  /\ \E p \in 3..Len(html_list) - 2 :
       /\ hist[p][p] = <<"103B">>
       /\ hist[p][p + 1] = <<"103D">>
       /\ hist[p][p + 2] = <<"103E">>
       /\ html_list[p] = <<"E1D1">>
       /\ html_list[p + 1] = <<"103B">>
       /\ html_list[p + 2] = <<>>

\* hist is the record of pass 6: the pass is running or has just ended
InPass6 == (pc = "pass6" /\ i > 0) \/ (pc = "pass7" /\ i = 0)

\* the iteration at position p of b finds the Kinzi pattern, two cells follow
KinziAt(b, p) ==
  /\ 3 <= p /\ p + 2 <= Len(b)
  /\ b[p] = <<"1039">> /\ b[p - 1] = <<"103A">> /\ b[p - 2] = <<"1004">>

\* the glyph that replaces the medial Ra c next to a Kinzi
KinziRa(c) == IF c = "103C" THEN "E1B6" ELSE "E1B7"

\* C18: the iteration of pass 6 at a virama with U+103A and U+1004 before it
\* and two cells or more after it empties the cells of U+1004 and U+103A; when
\* the next cell holds U+103C (U+E1B2) it leaves U+E1B6 (U+E1B7), the old
\* content of the cell two after, and U+E390; otherwise it leaves the old
\* content of the next cell and U+E390. It changes no other cell, and these
\* cells are the same when the pass ends.
C18_KinziLayout ==
  InPass6 =>
    \A p \in 1..Len(html_list) :
      (Len(hist) >= p + 1 /\ KinziAt(hist[p], p)) =>
        LET b == hist[p]
            a == hist[p + 1]
            all == 1..Len(html_list)
        IN /\ a[p - 2] = <<>> /\ a[p - 1] = <<>>
           /\ Same(html_list, a, {p - 2, p - 1, p, p + 1})
           /\ IF Has(b, p + 1, RaForms)
              THEN /\ a[p] = <<KinziRa(b[p + 1][1])>>
                   /\ a[p + 1] = b[p + 2]
                   /\ a[p + 2] = <<"E390">>
                   /\ html_list[p + 2] = <<"E390">>
                   /\ Same(a, b, all \ (p - 2..p + 2))
              ELSE /\ a[p] = b[p + 1]
                   /\ a[p + 1] = <<"E390">>
                   /\ Same(a, b, all \ (p - 2..p + 1))

\* pass 6 has ended after it met the Kinzi pattern before a wide medial Ra
\* and a consonant, and it leaves '', '', U+E1B7, the consonant and U+E390
C18_Witness ==
  /\ pc = "pass7" /\ i = 0
  /\ ~wrapped
  /\ \E p \in 1..Len(html_list) :
       /\ KinziAt(hist[p], p)
       /\ hist[p][p + 1] = <<"E1B2">>
       /\ hist[p][p + 2] = <<"1000">>
       /\ SubSeq(html_list, p - 2, p + 2)
            = << <<>>, <<>>, <<"E1B7">>, <<"1000">>, <<"E390">> >>

\* the consonants that a rule of the stacking branch names after the virama
WithStackedForm ==
  {StackedA[n][1] : n \in 1..Len(StackedA)}
    \cup {StackedB[n][1] : n \in 1..Len(StackedB)}
    \cup {StackedC[n][1] : n \in 1..Len(StackedC)}
    \cup {"100D", "1019"}

\* U+1004, U+1009, U+101A, U+101B, U+101D and U+1020
NoStackedForm == Consonants \ WithStackedForm

\* the iteration at position p of b finds a virama outside a Kinzi pattern
\* before a consonant without stacked form, two cells or more from both ends
PlainViramaAt(b, p) ==
  /\ 3 <= p /\ p + 2 <= Len(b)
  /\ b[p] = <<"1039">>
  /\ ~(b[p - 1] = <<"103A">> /\ b[p - 2] = <<"1004">>)
  /\ Has(b, p + 1, NoStackedForm)

\* C19: the iteration of pass 6 at a virama that is not part of a Kinzi
\* pattern and is followed by a consonant without stacked form changes no
\* cell.
C19_NoStackedFormNoChange ==
  (InPass6 /\ ~wrapped) =>
    \A p \in 1..Len(html_list) :
      (Len(hist) >= p + 1 /\ PlainViramaAt(hist[p], p)) => hist[p + 1] = hist[p]

\* what that iteration does leave alone: the virama and the consonant, and
\* every cell but the one before them and the one two after the virama
ViramaAndConsonantKept ==
  InPass6 =>
    \A p \in 1..Len(html_list) :
      (Len(hist) >= p + 1 /\ PlainViramaAt(hist[p], p))
        => Same(hist[p + 1], hist[p], 1..Len(html_list) \ {p - 1, p + 2})

\* hist is the record of pass 7: the pass is running or has just ended
InPass7 == (pc = "pass7" /\ i > 0) \/ (pc = "pass8" /\ i = 0)

\* the vowel signs of pass 7 and the marker each gives
MarkerForms ==
  {<<"102D", "E391">>, <<"102E", "E392">>, <<"1032", "E396">>, <<"1036", "E393">>}

\* in a, the marker at position p of b is upgraded for the vowel sign found
\* d cells after it, whose cell is emptied; no other cell differs from b, and
\* html_list has kept the cells p..p + d
Upgraded(b, a, p, d) ==
  \A t \in MarkerForms :
    b[p + d] = <<t[1]>>
      => /\ a[p] = <<t[2]>>
         /\ a[p + d] = <<>>
         /\ Same(a, b, 1..Len(b) \ {p, p + d})
         /\ Same(html_list, a, p..p + d)

\* C20 as stated: the iteration of pass 7 at a marker U+E390 upgrades it when
\* one of the four vowel signs is in the next cell, or in the cell after a
\* next cell that holds medial Ra U+103C.
C20_PastMedialRa ==
  (InPass7 /\ ~wrapped) =>
    \A p \in 1..Len(html_list) :
      (Len(hist) >= p + 1 /\ hist[p][p] = <<"E390">>) =>
        /\ p + 1 <= Len(html_list) => Upgraded(hist[p], hist[p + 1], p, 1)
        /\ (p + 2 <= Len(html_list) /\ hist[p][p + 1] = <<"103C">>)
             => Upgraded(hist[p], hist[p + 1], p, 2)

\* C20, amended: the cell that is looked past holds medial Ya U+103B; with a
\* medial Ra U+103C in the next cell the iteration changes nothing.
C20_PastMedialYa ==
  InPass7 =>
    \A p \in 1..Len(html_list) :
      (Len(hist) >= p + 1 /\ hist[p][p] = <<"E390">>) =>
        /\ p + 1 <= Len(html_list) => Upgraded(hist[p], hist[p + 1], p, 1)
        /\ (p + 2 <= Len(html_list) /\ hist[p][p + 1] = <<"103B">>)
             => Upgraded(hist[p], hist[p + 1], p, 2)
        /\ (p + 1 <= Len(html_list) /\ hist[p][p + 1] = <<"103C">>)
             => hist[p + 1] = hist[p]

\* pass 7 has ended after it met a marker made by pass 6 before U+103B and
\* U+1036, and it leaves U+E393, U+103B and '' there
C20_Witness ==
  /\ pc = "pass8" /\ i = 0
  /\ ~wrapped
  /\ Occurs(html, "E390") = 0
  /\ \E p \in 1..Len(html_list) - 2 :
       /\ hist[p][p] = <<"E390">>
       /\ hist[p][p + 1] = <<"103B">>
       /\ hist[p][p + 2] = <<"1036">>
       /\ SubSeq(html_list, p, p + 2) = << <<"E393">>, <<"103B">>, <<>> >>

\* hist is the record of pass 8: the pass is running or has ended
InPass8 == (pc = "pass8" /\ i > 0) \/ pc \in {"join", "done"}

\* the form of the medial Ra c before an upper vowel sign, and before a
\* medial Wa
RaVowelForm(c) == IF c = "103C" THEN "E1B6" ELSE "E1B7"

RaWaForm(c) == IF c = "103C" THEN "E1BB" ELSE "E1BC"

\* the iteration at position p of b finds a medial Ra with three cells or
\* more after it
MedialRaAt(b, p) == p + 3 <= Len(b) /\ Has(b, p, RaForms)

\* the three cases of pass 8
VowelAhead(b, p) == Has(b, p + 2, UpperVowels)

WaAhead(b, p) == b[p + 2] = <<"103D">> /\ ~Has(b, p + 3, UpperVowels)

WaAndVowelAhead(b, p) == b[p + 2] = <<"103D">> /\ Has(b, p + 3, UpperVowels)

\* C21 as stated: the iteration of pass 8 at a medial Ra with three cells or
\* more after it gives the cell one form for an upper vowel sign two cells
\* ahead, another for a medial Wa two cells ahead, and for a medial Wa with an
\* upper vowel sign behind it a private glyph that is neither of these two;
\* otherwise the cell is unchanged.
C21_FourOutcomes ==
  (InPass8 /\ ~wrapped) =>
    \A p \in 1..Len(html_list) :
      (Len(hist) >= p + 1 /\ MedialRaAt(hist[p], p)) =>
        LET b == hist[p]
            a == hist[p + 1]
            c == b[p][1]
        IN /\ VowelAhead(b, p) => a[p] = <<RaVowelForm(c)>>
           /\ WaAhead(b, p) => a[p] = <<RaWaForm(c)>>
           /\ WaAndVowelAhead(b, p)
                => a[p] \notin {b[p], <<RaVowelForm(c)>>, <<RaWaForm(c)>>}
           /\ ~(VowelAhead(b, p) \/ b[p + 2] = <<"103D">>) => a[p] = b[p]

\* C21, amended: there are three outcomes: a medial Wa two cells ahead with
\* an upper vowel sign three cells ahead gives the form of the upper vowel
\* sign; the iteration changes no other cell and the cell is the same when
\* the pass has ended.
C21_ThreeOutcomes ==
  InPass8 =>
    \A p \in 1..Len(html_list) :
      (Len(hist) >= p + 1 /\ MedialRaAt(hist[p], p)) =>
        LET b == hist[p]
            a == hist[p + 1]
            c == b[p][1]
        IN /\ VowelAhead(b, p) => a[p] = <<RaVowelForm(c)>>
           /\ WaAhead(b, p) => a[p] = <<RaWaForm(c)>>
           /\ WaAndVowelAhead(b, p) => a[p] = <<RaVowelForm(c)>>
           /\ ~(VowelAhead(b, p) \/ b[p + 2] = <<"103D">>) => a[p] = b[p]
           /\ Same(a, b, 1..Len(b) \ {p})
           /\ html_list[p] = a[p]

\* the call has returned after pass 8 met a wide medial Ra before a
\* consonant, a medial Wa and an upper vowel sign, and gave it U+E1B7
C21_Witness ==
  /\ pc = "done"
  /\ ~wrapped
  /\ \E p \in 1..Len(html_list) - 3 :
       /\ hist[p][p] = <<"E1B2">>
       /\ WaAndVowelAhead(hist[p], p)
       /\ html_list[p] = <<"E1B7">>

(***************************************************************************)
(* C22.  An input whose first three and last three characters are neither  *)
(* of the Myanmar block nor private-use characters is reshaped without an  *)
(* IndexError and without any pass reading or writing html_list below 0 or *)
(* at or beyond its length, whatever lies between them.  Every pass is a   *)
(* loop over the cells of html_list, whose length never changes, so a call *)
(* that does not raise returns.                                            *)
(***************************************************************************)
\* the markup characters of the inputs are the characters that are neither
\* of the Myanmar block nor private-use characters
SafeEnvelope(x) ==
  /\ Len(x) >= 3
  /\ \A n \in (1..3) \cup ((Len(x) - 2)..Len(x)) : x[n] \in Ascii

C22_SafeEnvelope ==
  SafeEnvelope(html) => pc # "raised" /\ ~wrapped

\* a call that returned, on an input whose first core character reads three
\* cells back (U+102F) and whose last core character reads three cells ahead
\* (U+101B), with a medial Ra between them that pass 2 moves
C22_Witness ==
  /\ pc = "done"
  /\ SafeEnvelope(html)
  /\ Len(html) = 9
  /\ html[4] = "102F"
  /\ html[5] = "103C"
  /\ html[6] = "101B"
  /\ matched
  /\ ~wrapped

====
